---- MODULE Spec2Model ----
(***************************************************************************)
(* A model of IECoreArnold::ShapeAlgo (ShapeAlgo.cpp): the conversion of a *)
(* Cortex primitive's "P", "radius" and arbitrary primitive variables into *)
(* parameters of an Arnold shape node.                                     *)
(*                                                                         *)
(* Floats are represented exactly as integers counting quarters (1.0 is    *)
(* 4, 0.5 is 2); every float the model divides by two is an even number    *)
(* of quarters, so the division is exact, as it is in binary floating      *)
(* point.  A V3f is represented by an integer naming the point.            *)
(***************************************************************************)
EXTENDS Integers, Sequences, FiniteSets, TLC

VARIABLES
    primitive,  \* the primitive handed to the single-sample functions
    samples,    \* the primitives handed to the multi-sample functions
    ignore,     \* namesToIgnore of convertPrimitiveVariables (NoNames = NULL)
    shape,      \* the AtNode: its entry's built-ins, user declarations, values
    messages,   \* the warnings handed to IECore::msg, in order
    call,       \* the last public function called and how it ended
    before      \* shape and messages when that call began

vars == <<primitive, samples, ignore, shape, messages, call, before>>

----------------------------------------------------------------------------
(* Bounds of the model.                                                    *)

MaxLen == 2       \* longest vector payload
MaxSamples == 2   \* longest list of motion samples
MaxSize == 2      \* largest variableSize() of a primitive

----------------------------------------------------------------------------
(* IECore data, primitive variables and primitives.                        *)

Interpolations == {"Constant", "Uniform", "Varying", "Vertex", "FaceVarying"}

\* Lookup without a required interpolation (PrimitiveVariable::Invalid).
Invalid == "Invalid"

NullData == [type |-> "Null", value |-> <<>>]

FloatData(v) == [type |-> "FloatData", value |-> <<v>>]
FloatVectorData(s) == [type |-> "FloatVectorData", value |-> s]
V3fVectorData(s) == [type |-> "V3fVectorData", value |-> s]
IntVectorData(s) == [type |-> "IntVectorData", value |-> s]

PrimitiveVariable(i, d) == [interpolation |-> i, data |-> d]

SeqsUpTo(S, n) == UNION {[1..k -> S] : k \in 0..n}

\* Finite maps: the value of m at k becomes v.
Put(m, k, v) == [x \in DOMAIN m \cup {k} |-> IF x = k THEN v ELSE m[x]]

EmptyMap == [x \in {} |-> 0]

\* Primitive::variableData<T>( name, requiredInterpolation ): the data of the
\* variable called name when it has the required interpolation and type T.
variableData(prim, T, name, requiredInterpolation) ==
    IF name \notin DOMAIN prim.variables
    THEN NullData
    ELSE IF /\ requiredInterpolation # Invalid
            /\ prim.variables[name].interpolation # requiredInterpolation
         THEN NullData
         ELSE IF prim.variables[name].data.type = T
              THEN prim.variables[name].data
              ELSE NullData

\* Primitive::variableSize( interpolation ).
variableSize(prim, interpolation) == prim.sizes[interpolation]

\* Primitive::isInstanceOf( typeId ).
isInstanceOf(prim, typeId) == prim.kind = typeId

MeshPrimitiveTypeId == "MeshPrimitive"
PointsPrimitiveTypeId == "PointsPrimitive"
CurvesPrimitiveTypeId == "CurvesPrimitive"
\* Any other kind of primitive.
PrimitiveTypeId == "Primitive"

----------------------------------------------------------------------------
(* Arnold: arrays and nodes.                                               *)

AI_TYPE_NONE == "NONE"
AI_TYPE_FLOAT == "FLOAT"
AI_TYPE_POINT == "POINT"
AI_TYPE_UINT == "UINT"
AI_TYPE_INT == "INT"
AI_TYPE_VECTOR == "VECTOR"

NullArray == [type |-> AI_TYPE_NONE, nelements |-> 0, nkeys |-> 0, values |-> <<>>]

\* AiArrayConvert( nelements, 1, type, data ).
AiArrayConvert(nelements, type, data) ==
    [type |-> type, nelements |-> nelements, nkeys |-> 1,
     values |-> [i \in 1..nelements |-> data[i]]]

\* AiNodeSetArray( node, name, array ).
AiNodeSetArray(node, name, array) ==
    [node EXCEPT !.arrays = Put(node.arrays, name, array)]

\* AiNodeDeclare( node, name, declaration ).
AiNodeDeclare(node, name, declaration) ==
    [node EXCEPT !.declared = Put(node.declared, name, declaration)]

\* The name looked up among the user parameters, not the entry's.
AiNodeEntryLookUpParameterMutant(node, name) == name \in DOMAIN node.declared

\* AiNodeEntryLookUpParameter( AiNodeGetNodeEntry( node ), name ) != NULL.
AiNodeEntryLookUpParameter(node, name) == name \in node.entry

\* AiParamGetTypeName( type ); the types are modelled by their names.
AiParamGetTypeName(type) == type

----------------------------------------------------------------------------
(* Internal utilities.                                                     *)

\* Indices counted from one.
identityIndicesMutant(size) ==
    [type |-> AI_TYPE_UINT, nelements |-> size, nkeys |-> 1,
     values |-> [i \in 1..size |-> i]]

\* identityIndices( size ): element i (counted from 0, held at i + 1) is i.
identityIndices(size) ==
    [type |-> AI_TYPE_UINT, nelements |-> size, nkeys |-> 1,
     values |-> [i \in 1..size |-> i - 1]]

\* 0.5f, in quarters.
DefaultRadius == 2

\* *wIt / 2.0f
Half(w) == w \div 2

\* calculatedRadius resized to the width list, each element the width halved.
calculatedFromWidth(width) ==
    [i \in 1..Len(width) |-> Half(width[i])]

\* The constant-radius branch left out.
radiusNoConstantMutant(prim) ==
    LET r == variableData(prim, "FloatVectorData", "radius", Invalid)
        width == variableData(prim, "FloatVectorData", "width", Invalid)
        w1 == variableData(prim, "FloatData", "width", "Constant")
        constantWidth ==
            IF w1 # NullData THEN w1
            ELSE variableData(prim, "FloatData", "constantwidth", "Constant")
    IN  IF r # NullData THEN r.value
        ELSE IF width # NullData THEN calculatedFromWidth(width.value)
        ELSE IF constantWidth # NullData THEN <<Half(constantWidth.value[1])>>
        ELSE <<DefaultRadius>>

\* The per-element width tried before the constant radius.
radiusWidthFirstMutant(prim) ==
    LET r == variableData(prim, "FloatVectorData", "radius", Invalid)
        constantRadius == variableData(prim, "FloatData", "radius", "Constant")
        width == variableData(prim, "FloatVectorData", "width", Invalid)
        w1 == variableData(prim, "FloatData", "width", "Constant")
        constantWidth ==
            IF w1 # NullData THEN w1
            ELSE variableData(prim, "FloatData", "constantwidth", "Constant")
    IN  IF r # NullData THEN r.value
        ELSE IF width # NullData THEN calculatedFromWidth(width.value)
        ELSE IF constantRadius # NullData THEN <<constantRadius.value[1]>>
        ELSE IF constantWidth # NullData THEN <<Half(constantWidth.value[1])>>
        ELSE <<DefaultRadius>>

\* radius( primitive ): the list of floats of the FloatVectorData returned.
radius(prim) ==
    LET r == variableData(prim, "FloatVectorData", "radius", Invalid)
        constantRadius == variableData(prim, "FloatData", "radius", "Constant")
        width == variableData(prim, "FloatVectorData", "width", Invalid)
        w1 == variableData(prim, "FloatData", "width", "Constant")
        constantWidth ==
            IF w1 # NullData THEN w1
            ELSE variableData(prim, "FloatData", "constantwidth", "Constant")
    IN  IF r # NullData THEN r.value
        ELSE IF constantRadius # NullData THEN <<constantRadius.value[1]>>
        ELSE IF width # NullData THEN calculatedFromWidth(width.value)
        ELSE IF constantWidth # NullData THEN <<Half(constantWidth.value[1])>>
        ELSE <<DefaultRadius>>

----------------------------------------------------------------------------
(* ParameterAlgo, as far as ShapeAlgo uses it.                             *)

\* ParameterAlgo::dataToArray( samples, aiType ): one key per sample.
dataToArraySamples(dataSamples, aiType) ==
    IF Len(dataSamples) = 0
    THEN NullArray
    ELSE [type |-> aiType, nelements |-> Len(dataSamples[1]),
          nkeys |-> Len(dataSamples), values |-> dataSamples]

\* ParameterAlgo::parameterType( data, isArray ).
parameterType(data) ==
    IF data.type = "FloatData" THEN [type |-> AI_TYPE_FLOAT, isArray |-> FALSE]
    ELSE IF data.type = "FloatVectorData" THEN [type |-> AI_TYPE_FLOAT, isArray |-> TRUE]
    ELSE IF data.type = "IntVectorData" THEN [type |-> AI_TYPE_INT, isArray |-> TRUE]
    ELSE IF data.type = "V3fVectorData" THEN [type |-> AI_TYPE_VECTOR, isArray |-> TRUE]
    ELSE [type |-> AI_TYPE_NONE, isArray |-> FALSE]

\* ParameterAlgo::dataToArray( data, aiType ): null when there is nothing to
\* build an array from.
dataToArray(data, aiType) ==
    IF Len(data.value) = 0
    THEN NullArray
    ELSE AiArrayConvert(Len(data.value), aiType, data.value)

\* ParameterAlgo::setParameter( node, name, data ).
setParameter(node, name, data) ==
    [node EXCEPT !.scalars = Put(node.scalars, name, data)]

----------------------------------------------------------------------------
(* The public API.                                                         *)

\* thrown: an Exception left the function.  aborted: the process stopped
\* inside it.  derived: the lists radius() returned to it, in order.
\* invoked: the names convertPrimitiveVariable was called with, in order.
Called(op, name, thrown) ==
    [op |-> op, name |-> name, thrown |-> thrown, aborted |-> FALSE,
     derived |-> <<>>, invoked |-> <<>>]

\* &( v[0] ) of lines 124 and 154.  For an empty std::vector this is
\* undefined: the address is formed and, the array having no elements,
\* never read; or the element access stops the process (a build that
\* asserts the index is in range) before AiNodeSetArray is called.
elementZeroAborts(v) == IF Len(v) = 0 THEN BOOLEAN ELSE {FALSE}

Snapshot == [shape |-> shape, messages |-> messages]

\* convertRadius( primitive, shape ).
convertRadius ==
    /\ call.op = "none"
    /\ LET r == radius(primitive)
       IN  \E aborted \in elementZeroAborts(r) :
             /\ shape' = IF aborted
                         THEN shape
                         ELSE AiNodeSetArray(shape, "radius",
                                  AiArrayConvert(Len(r), AI_TYPE_FLOAT, r))
             /\ call' = [Called("convertRadius", "radius", FALSE)
                             EXCEPT !.aborted = aborted, !.derived = <<r>>]
    /\ before' = Snapshot
    /\ UNCHANGED <<primitive, samples, ignore, messages>>

\* convertRadius( samples, shape ).
convertRadiusSamples ==
    /\ call.op = "none"
    /\ LET dataSamples == [i \in 1..Len(samples) |-> radius(samples[i])]
       IN  /\ shape' = AiNodeSetArray(shape, "radius",
                           dataToArraySamples(dataSamples, AI_TYPE_FLOAT))
           /\ call' = [Called("convertRadiusSamples", "radius", FALSE)
                           EXCEPT !.derived = dataSamples]
    /\ before' = Snapshot
    /\ UNCHANGED <<primitive, samples, ignore, messages>>

Outcome(node, thrown, aborted) ==
    [shape |-> node, thrown |-> thrown, aborted |-> aborted]

\* convertP( primitive, shape, name ): the ways it may end, each the node
\* afterwards, whether the Exception of line 118 was thrown and whether
\* the process stopped at line 124.
convertPOutcomes(prim, node, name) ==
    LET p == variableData(prim, "V3fVectorData", "P", "Vertex")
    IN  IF p = NullData
        THEN {Outcome(node, TRUE, FALSE)}
        ELSE {IF aborted
              THEN Outcome(node, FALSE, TRUE)
              ELSE Outcome(AiNodeSetArray(node, name,
                       AiArrayConvert(Len(p.value), AI_TYPE_POINT, p.value)),
                       FALSE, FALSE) :
              aborted \in elementZeroAborts(p.value)}

\* convertP( samples, shape, name ): the loop of lines 133-141 throws at the
\* first sample without "P", before line 144 touches the node.
convertPSamplesOutcome(prims, node, name) ==
    LET p == [i \in 1..Len(prims) |->
                 variableData(prims[i], "V3fVectorData", "P", "Vertex")]
    IN  IF \E i \in 1..Len(prims) : p[i] = NullData
        THEN Outcome(node, TRUE, FALSE)
        ELSE Outcome(AiNodeSetArray(node, name,
                 dataToArraySamples([i \in 1..Len(prims) |-> p[i].value],
                                    AI_TYPE_POINT)), FALSE, FALSE)

\* The parameter names callers pass to convertP.
PNames == {"points", "P"}

convertP ==
    /\ call.op = "none"
    /\ \E name \in PNames :
          \E o \in convertPOutcomes(primitive, shape, name) :
              /\ shape' = o.shape
              /\ call' = [Called("convertP", name, o.thrown)
                              EXCEPT !.aborted = o.aborted]
    /\ before' = Snapshot
    /\ UNCHANGED <<primitive, samples, ignore, messages>>

convertPSamples ==
    /\ call.op = "none"
    /\ \E name \in PNames :
          LET o == convertPSamplesOutcome(samples, shape, name)
          IN  /\ shape' = o.shape
              /\ call' = Called("convertPSamples", name, o.thrown)
    /\ before' = Snapshot
    /\ UNCHANGED <<primitive, samples, ignore, messages>>

\* IECore::msg( Msg::Warning, "ShapeAlgo::convertPrimitiveVariable", ... ).
msg(msgs, name, reason) == Append(msgs, [name |-> name, reason |-> reason])

\* The Vertex case comparing the Vertex size whatever the interpolation is.
arnoldInterpolationVertexSizeMutant(prim, pv) ==
    IF pv.interpolation = "Constant" THEN "constant"
    ELSE IF pv.interpolation = "Uniform" THEN "uniform"
    ELSE IF pv.interpolation = "Varying" THEN "varying"
    ELSE IF pv.interpolation = "FaceVarying" /\ isInstanceOf(prim, MeshPrimitiveTypeId)
         THEN "indexed"
    ELSE IF pv.interpolation \in {"FaceVarying", "Vertex"}
         THEN IF variableSize(prim, "Vertex") = variableSize(prim, "Varying")
              THEN "varying"
              ELSE ""
    ELSE ""

\* The Vertex case without the comparison of sizes.
arnoldInterpolationNoSizeMutant(prim, pv) ==
    IF pv.interpolation = "Constant" THEN "constant"
    ELSE IF pv.interpolation = "Uniform" THEN "uniform"
    ELSE IF pv.interpolation = "Varying" THEN "varying"
    ELSE IF pv.interpolation = "FaceVarying" /\ isInstanceOf(prim, MeshPrimitiveTypeId)
         THEN "indexed"
    ELSE IF pv.interpolation \in {"FaceVarying", "Vertex"} THEN "varying"
    ELSE ""

\* The switch of lines 195-226: arnoldInterpolation, "" when none was set.
arnoldInterpolation(prim, pv) ==
    IF pv.interpolation = "Constant" THEN "constant"
    ELSE IF pv.interpolation = "Uniform" THEN "uniform"
    ELSE IF pv.interpolation = "Varying" THEN "varying"
    ELSE IF pv.interpolation = "FaceVarying" /\ isInstanceOf(prim, MeshPrimitiveTypeId)
         THEN "indexed"
    ELSE IF pv.interpolation \in {"FaceVarying", "Vertex"}
         THEN IF variableSize(prim, pv.interpolation) = variableSize(prim, "Varying")
              THEN "varying"
              ELSE ""
    ELSE ""

\* Points treated as any other primitive.
pointsInterpolationMutant(prim, interpolation) == interpolation

\* Lines 238-250: uniform is one per point for Arnold.
pointsInterpolation(prim, interpolation) ==
    IF isInstanceOf(prim, PointsPrimitiveTypeId)
    THEN IF interpolation = "uniform" THEN "constant"
         ELSE IF interpolation = "varying" THEN "uniform"
         ELSE interpolation
    ELSE interpolation

Converted(node, msgs) == [shape |-> node, messages |-> msgs]

\* Lines 274-296: declare, build the array, attach it and its indices.
declareAndSet(pv, node, msgs, name, interpolation, type) ==
    LET typeString == interpolation \o " " \o AiParamGetTypeName(type)
        declared == AiNodeDeclare(node, name, typeString)
        array == dataToArray(pv.data, type)
    IN  IF array # NullArray
        THEN IF interpolation = "indexed"
             THEN Converted(AiNodeSetArray(AiNodeSetArray(declared, name, array),
                                name \o "idxs", identityIndices(array.nelements)),
                            msgs)
             ELSE Converted(AiNodeSetArray(declared, name, array), msgs)
        ELSE Converted(declared, msg(msgs, name, "array"))

\* convertPrimitiveVariable( primitive, primitiveVariable, shape, name ): the
\* node and the warnings afterwards.
convertPrimitiveVariableOutcome(prim, pv, node, msgs, name) ==
    IF AiNodeEntryLookUpParameter(node, name)
    THEN Converted(node, msg(msgs, name, "clash"))
    ELSE LET switched == arnoldInterpolation(prim, pv)
             interpolation == pointsInterpolation(prim, switched)
             t == parameterType(pv.data)
         IN  IF switched = ""
             THEN Converted(node, msg(msgs, name, "interpolation"))
             ELSE IF interpolation = "constant"
             THEN Converted(setParameter(node, name, pv.data), msgs)
             ELSE IF t.type = AI_TYPE_NONE \/ ~t.isArray
             THEN Converted(node, msg(msgs, name, "type"))
             ELSE declareAndSet(pv, node, msgs, name, interpolation, t.type)

convertPrimitiveVariable ==
    /\ call.op = "none"
    /\ \E name \in DOMAIN primitive.variables :
          LET o == convertPrimitiveVariableOutcome(
                       primitive, primitive.variables[name], shape, messages, name)
          IN  /\ shape' = o.shape
              /\ messages' = o.messages
              /\ call' = [Called("convertPrimitiveVariable", name, FALSE)
                              EXCEPT !.invoked = <<name>>]
    /\ before' = Snapshot
    /\ UNCHANGED <<primitive, samples, ignore>>

\* Only the first name of the list is compared.
isIgnoredMutant(namesToIgnore, name) ==
    /\ ~namesToIgnore.null
    /\ Len(namesToIgnore.names) > 0
    /\ namesToIgnore.names[1] = name

\* Lines 303-318: skip, when the name is in a list that is not null.
isIgnored(namesToIgnore, name) ==
    /\ ~namesToIgnore.null
    /\ \E k \in 1..Len(namesToIgnore.names) : namesToIgnore.names[k] = name

\* The names of the model, in the order std::map keeps its string keys.
NameOrder == <<"Cs", "P", "radius", "st", "stidxs">>

\* The names of primitive->variables from begin() to end().
variablesOrder(prim) ==
    SelectSeq(NameOrder, LAMBDA n : n \in DOMAIN prim.variables)

Visited(node, msgs, invoked) ==
    [shape |-> node, messages |-> msgs, invoked |-> invoked]

\* The body of the loop of lines 301-321 for the names of order, in turn.
RECURSIVE visit(_, _, _, _)
visit(prim, namesToIgnore, order, sofar) ==
    IF order = <<>>
    THEN sofar
    ELSE IF isIgnored(namesToIgnore, Head(order))
         THEN visit(prim, namesToIgnore, Tail(order), sofar)
         ELSE LET o == convertPrimitiveVariableOutcome(prim,
                           prim.variables[Head(order)], sofar.shape,
                           sofar.messages, Head(order))
              IN  visit(prim, namesToIgnore, Tail(order),
                        Visited(o.shape, o.messages,
                                Append(sofar.invoked, Head(order))))

\* convertPrimitiveVariables( primitive, shape, namesToIgnore ).
convertPrimitiveVariables ==
    /\ call.op = "none"
    /\ LET o == visit(primitive, ignore, variablesOrder(primitive),
                      Visited(shape, messages, <<>>))
       IN  /\ shape' = o.shape
           /\ messages' = o.messages
           /\ call' = [Called("convertPrimitiveVariables", "", FALSE)
                           EXCEPT !.invoked = o.invoked]
    /\ before' = Snapshot
    /\ UNCHANGED <<primitive, samples, ignore>>

----------------------------------------------------------------------------
(* Inputs.                                                                 *)

\* namesToIgnore: a null pointer, or a list of names.
NoNames == [null |-> TRUE, names |-> <<>>]
Names(list) == [null |-> FALSE, names |-> list]

Node(entry) == [entry |-> entry, declared |-> EmptyMap,
                scalars |-> EmptyMap, arrays |-> EmptyMap]

PointsEntry == {"points", "radius", "mode"}
PolymeshEntry == {"vlist", "nsides", "vidxs"}
CurvesEntry == {"points", "radius", "basis", "num_points"}

NoCall == Called("none", "", FALSE)

\* Maps from a subset of names to the values each name may take.
Maps(names, choices(_)) ==
    UNION {{m \in [D -> UNION {choices(n) : n \in D}] :
               \A n \in D : m[n] \in choices(n)} : D \in SUBSET names}

PointSizes(n) == [i \in Interpolations |->
    IF i \in {"Constant", "Uniform"} THEN 1 ELSE n]

Primitive(kind, variables, sizes) ==
    [kind |-> kind, variables |-> variables, sizes |-> sizes]

\* Floats (in quarters) a radius and a width may hold: all even, and no
\* width halved is a radius or the default.
RadiusFloats == {8, 16}
WidthFloats == {12, 20}

RadiusChoices(n) ==
    IF n = "radius"
    THEN {PrimitiveVariable(i, FloatVectorData(s)) :
              i \in {"Vertex", "Constant"}, s \in SeqsUpTo(RadiusFloats, MaxLen)}
         \cup {PrimitiveVariable(i, FloatData(8)) : i \in {"Constant", "Uniform"}}
         \cup {PrimitiveVariable("Vertex", V3fVectorData(<<1>>))}
    ELSE IF n = "width"
    THEN {PrimitiveVariable(i, FloatVectorData(s)) :
              i \in {"Vertex", "Constant"}, s \in SeqsUpTo(WidthFloats, MaxLen)}
         \cup {PrimitiveVariable(i, FloatData(12)) : i \in {"Constant", "Uniform"}}
    ELSE {PrimitiveVariable(i, FloatData(28)) : i \in {"Constant", "Uniform"}}

RadiusPrimitives ==
    {Primitive(PointsPrimitiveTypeId, m, PointSizes(MaxLen)) :
        m \in Maps({"radius", "width", "constantwidth"}, RadiusChoices)}

\* The other motion samples of the radius calls.
OtherRadiusSamples ==
    {Primitive(PointsPrimitiveTypeId, m, PointSizes(MaxLen)) :
        m \in {EmptyMap,
               [n \in {"radius"} |-> PrimitiveVariable("Vertex", FloatVectorData(<<16, 8>>))],
               [n \in {"width"} |-> PrimitiveVariable("Vertex", FloatVectorData(<<20>>))]}}

InitRadius ==
    /\ primitive \in RadiusPrimitives
    /\ samples \in {<<primitive>> \o s : s \in SeqsUpTo(OtherRadiusSamples, MaxSamples - 1)}
    /\ ignore = NoNames
    /\ shape = Node(PointsEntry)
    /\ messages = <<>>
    /\ call = NoCall
    /\ before = Snapshot

NextRadius == convertRadius \/ convertRadiusSamples

SpecRadius == InitRadius /\ [][NextRadius]_vars

\* What a sample may hold as "P": nothing, positions, positions of the
\* wrong interpolation, data of the wrong type.
PChoices(n) ==
    {PrimitiveVariable("Vertex", V3fVectorData(s)) : s \in SeqsUpTo({1, 2}, MaxLen)}
    \cup {PrimitiveVariable("Varying", V3fVectorData(<<1>>)),
          PrimitiveVariable("Vertex", FloatVectorData(<<8>>))}

PPrimitives ==
    {Primitive(PointsPrimitiveTypeId, m, PointSizes(MaxLen)) :
        m \in Maps({"P"}, PChoices)}

\* A node nothing was set on, and one a previous conversion has filled.
PShapes ==
    {Node(PointsEntry),
     AiNodeSetArray(AiNodeSetArray(Node(PointsEntry), "points",
                        AiArrayConvert(1, AI_TYPE_POINT, <<2>>)),
                    "radius", AiArrayConvert(1, AI_TYPE_FLOAT, <<DefaultRadius>>))}

InitP ==
    /\ samples \in SeqsUpTo(PPrimitives, MaxSamples) \ {<<>>}
    /\ primitive = samples[1]
    /\ ignore = NoNames
    /\ shape \in PShapes
    /\ messages = <<>>
    /\ call = NoCall
    /\ before = Snapshot

NextP == convertP \/ convertPSamples

SpecP == InitP /\ [][NextP]_vars

MeshSizes(vertex, faceVarying) == [i \in Interpolations |->
    IF i \in {"Constant", "Uniform"} THEN 1
    ELSE IF i = "FaceVarying" THEN faceVarying ELSE vertex]

\* Cubic curves have more vertices than varying values, linear ones as many.
CurvesSizes(vertex, varying) == [i \in Interpolations |->
    IF i \in {"Constant", "Uniform"} THEN 1
    ELSE IF i = "Vertex" THEN vertex ELSE varying]

\* Another kind of primitive answers variableSize() as it likes.
OtherSizes(vertex, varying, faceVarying) == [i \in Interpolations |->
    IF i \in {"Constant", "Uniform"} THEN 1
    ELSE IF i = "Vertex" THEN vertex
    ELSE IF i = "Varying" THEN varying ELSE faceVarying]

\* The kinds of primitive with the sizes their topology may give them.
Topologies ==
    {[kind |-> PointsPrimitiveTypeId, sizes |-> PointSizes(n)] : n \in 1..MaxSize}
    \cup {[kind |-> MeshPrimitiveTypeId, sizes |-> MeshSizes(v, f)] :
              v \in 1..MaxSize, f \in 1..MaxSize}
    \cup {[kind |-> CurvesPrimitiveTypeId, sizes |-> CurvesSizes(v, w)] :
              v \in 1..MaxSize, w \in 1..MaxSize}
    \cup {[kind |-> PrimitiveTypeId, sizes |-> OtherSizes(v, w, f)] :
              v \in 1..MaxSize, w \in 1..MaxSize, f \in 1..MaxSize}

EntryOf(kind) ==
    IF kind = PointsPrimitiveTypeId THEN PointsEntry
    ELSE IF kind = MeshPrimitiveTypeId THEN PolymeshEntry
    ELSE CurvesEntry

\* The node of a kind of primitive: new, or with built-ins already set.
ShapesOf(kind) ==
    {Node(EntryOf(kind)),
     IF kind = MeshPrimitiveTypeId
     THEN AiNodeSetArray(Node(PolymeshEntry), "vlist",
              AiArrayConvert(1, AI_TYPE_POINT, <<2>>))
     ELSE AiNodeSetArray(Node(EntryOf(kind)), "radius",
              AiArrayConvert(1, AI_TYPE_FLOAT, <<DefaultRadius>>))}

\* Payloads: a float, float vectors (one empty), points, and a type
\* ParameterAlgo knows no Arnold type for.
Payloads ==
    {FloatData(8),
     FloatVectorData(<<>>),
     FloatVectorData([i \in 1..MaxLen |-> 8 * i]),
     V3fVectorData([i \in 1..MaxLen |-> i]),
     [type |-> "CompoundData", value |-> <<>>]}

VariableChoices(n) ==
    {PrimitiveVariable(i, d) : i \in Interpolations \cup {Invalid}, d \in Payloads}

\* "radius" is a built-in of the points and curves nodes, "Cs" of none.
VariablePrimitives ==
    {Primitive(t.kind, m, t.sizes) :
        t \in Topologies, m \in Maps({"Cs", "radius"}, VariableChoices)}

InitVariable ==
    /\ primitive \in VariablePrimitives
    /\ samples = <<primitive>>
    /\ ignore = NoNames
    /\ shape \in ShapesOf(primitive.kind)
    /\ messages = <<>>
    /\ call = NoCall
    /\ before = Snapshot

NextVariable == convertPrimitiveVariable

SpecVariable == InitVariable /\ [][NextVariable]_vars

\* What the variables of a primitive converted as a whole may be: values
\* that convert, and values that meet each of the four warnings.
BulkChoices(n) ==
    IF n = "Cs"
    THEN {PrimitiveVariable("Constant", FloatData(8)),
          PrimitiveVariable("Vertex", FloatVectorData([i \in 1..MaxLen |-> 8 * i])),
          PrimitiveVariable("Varying", [type |-> "CompoundData", value |-> <<>>]),
          PrimitiveVariable("Uniform", FloatVectorData(<<>>))}
    ELSE IF n = "P"
    THEN {PrimitiveVariable("Vertex", V3fVectorData([i \in 1..MaxLen |-> i]))}
    ELSE IF n = "radius"
    THEN {PrimitiveVariable("Vertex", FloatVectorData([i \in 1..MaxLen |-> 8 * i]))}
    ELSE IF n = "st"
    THEN {PrimitiveVariable("FaceVarying", FloatVectorData([i \in 1..MaxLen |-> 4 * i])),
          PrimitiveVariable("FaceVarying", FloatVectorData(<<>>))}
    ELSE {PrimitiveVariable("Varying", IntVectorData([i \in 1..MaxLen |-> 7])),
          PrimitiveVariable("Constant", FloatData(16))}

\* Points, a mesh and cubic curves.
BulkTopologies ==
    {[kind |-> PointsPrimitiveTypeId, sizes |-> PointSizes(MaxSize)],
     [kind |-> MeshPrimitiveTypeId, sizes |-> MeshSizes(MaxSize, MaxSize + 1)],
     [kind |-> CurvesPrimitiveTypeId, sizes |-> CurvesSizes(MaxSize + 1, MaxSize)]}

BulkPrimitives ==
    {Primitive(t.kind, m, t.sizes) :
        t \in BulkTopologies,
        m \in Maps({"Cs", "P", "radius", "st", "stidxs"}, BulkChoices)}

IgnoreLists ==
    {NoNames, Names(<<>>), Names(<<"P">>), Names(<<"P", "radius">>),
     Names(<<"st", "P", "N">>)}

InitBulk ==
    /\ primitive \in BulkPrimitives
    /\ samples = <<primitive>>
    /\ ignore \in IgnoreLists
    /\ shape = Node(EntryOf(primitive.kind))
    /\ messages = <<>>
    /\ call = NoCall
    /\ before = Snapshot

NextBulk == convertPrimitiveVariables

SpecBulk == InitBulk /\ [][NextBulk]_vars

----------------------------------------------------------------------------
(* Radius derivation: what the claims speak of.                            *)

\* The primitives the last radius call derived a radius for, and the lists
\* radius() returned for them, in the same order.
RadiusInputs ==
    IF call.op = "convertRadius" THEN <<primitive>> ELSE samples

RadiusOutputs == call.derived

RadiusCalled == call.op \in {"convertRadius", "convertRadiusSamples"}

Has(prim, n, type) ==
    n \in DOMAIN prim.variables /\ prim.variables[n].data.type = type

HasConstantFloat(prim, n) ==
    Has(prim, n, "FloatData") /\ prim.variables[n].interpolation = "Constant"

Payload(prim, n) == prim.variables[n].data.value

IsHalved(list, width) ==
    Len(list) = Len(width) /\ \A k \in 1..Len(width) : 2 * list[k] = width[k]

\* The list the order "per-element radius, constant radius, per-element
\* width, constant width, constantwidth, default" selects.
InPrecedenceOrder(prim, list) ==
    IF Has(prim, "radius", "FloatVectorData") THEN list = Payload(prim, "radius")
    ELSE IF HasConstantFloat(prim, "radius") THEN list = Payload(prim, "radius")
    ELSE IF Has(prim, "width", "FloatVectorData")
         THEN IsHalved(list, Payload(prim, "width"))
    ELSE IF HasConstantFloat(prim, "width")
         THEN IsHalved(list, Payload(prim, "width"))
    ELSE IF HasConstantFloat(prim, "constantwidth")
         THEN IsHalved(list, Payload(prim, "constantwidth"))
    ELSE list = <<DefaultRadius>>

\* C1, as stated: a primitive with a Constant float "radius" and a
\* per-element "width" gets the width list halved, not the constant radius.
C1_AsStated ==
    RadiusCalled =>
        \A i \in 1..Len(RadiusInputs) :
            (/\ HasConstantFloat(RadiusInputs[i], "radius")
             /\ Has(RadiusInputs[i], "width", "FloatVectorData"))
            => IsHalved(RadiusOutputs[i], Payload(RadiusInputs[i], "width"))

\* C1, amended: the derived list follows the order per-element radius,
\* constant radius, per-element width (halved), constant width or
\* "constantwidth" (halved), default 0.5; so a Constant float "radius" wins
\* over a per-element "width".
C1_Precedence ==
    RadiusCalled =>
        \A i \in 1..Len(RadiusInputs) :
            InPrecedenceOrder(RadiusInputs[i], RadiusOutputs[i])

C1_Witness ==
    /\ call.op = "convertRadius"
    /\ HasConstantFloat(primitive, "radius")
    /\ Has(primitive, "width", "FloatVectorData")
    /\ Len(Payload(primitive, "width")) = 2
    /\ call.derived = <<Payload(primitive, "radius")>>
    /\ shape.arrays["radius"].values = Payload(primitive, "radius")

\* C2, as stated: whenever the primitive has a variable named "radius", of
\* any type and interpolation, the derived list is that variable's payload.
C2_AsStated ==
    RadiusCalled =>
        \A i \in 1..Len(RadiusInputs) :
            "radius" \in DOMAIN RadiusInputs[i].variables
            => RadiusOutputs[i] = Payload(RadiusInputs[i], "radius")

\* C2, amended: whenever "radius" is a float vector (of any interpolation)
\* or a float of Constant interpolation, the derived list is its payload,
\* whatever "width" and "constantwidth" hold.
C2_RadiusWins ==
    RadiusCalled =>
        \A i \in 1..Len(RadiusInputs) :
            (\/ Has(RadiusInputs[i], "radius", "FloatVectorData")
             \/ HasConstantFloat(RadiusInputs[i], "radius"))
            => RadiusOutputs[i] = Payload(RadiusInputs[i], "radius")

C2_Witness ==
    /\ call.op = "convertRadiusSamples"
    /\ Len(samples) = 2
    /\ HasConstantFloat(samples[1], "radius")
    /\ Has(samples[1], "width", "FloatVectorData")
    /\ HasConstantFloat(samples[1], "constantwidth")
    /\ call.derived[1] = Payload(samples[1], "radius")
    /\ shape.arrays["radius"].values[1] = Payload(samples[1], "radius")

\* C3: the list radius() derives always has at least one element.
C3_AsStated ==
    RadiusCalled =>
        \A i \in 1..Len(RadiusInputs) : Len(RadiusOutputs[i]) >= 1

----------------------------------------------------------------------------
(* Position conversion.                                                    *)

PInputs == IF call.op = "convertP" THEN <<primitive>> ELSE samples

HasVertexP(prim) ==
    Has(prim, "P", "V3fVectorData") /\ prim.variables["P"].interpolation = "Vertex"

\* The node differs from what it was before the call in the array called
\* name and in nothing else.
OnlyArrayWritten(name) ==
    /\ shape.entry = before.shape.entry
    /\ shape.declared = before.shape.declared
    /\ shape.scalars = before.shape.scalars
    /\ DOMAIN shape.arrays = DOMAIN before.shape.arrays \cup {name}
    /\ \A n \in DOMAIN before.shape.arrays :
           n # name => shape.arrays[n] = before.shape.arrays[n]

\* C4: when the primitive, or any sample wherever it stands in the list,
\* lacks a V3f vector "P" of Vertex interpolation, convertP throws and the
\* node is what it was before the call; when every sample has it, the call
\* returns having written the array called name, holding the positions of
\* every sample, and nothing else.
C4_AsStated ==
    call.op \in {"convertP", "convertPSamples"} =>
        IF \E i \in 1..Len(PInputs) : ~HasVertexP(PInputs[i])
        THEN /\ call.thrown
             /\ ~call.aborted
             /\ shape = before.shape
             /\ messages = before.messages
        ELSE /\ ~call.thrown
             /\ ~call.aborted
             /\ OnlyArrayWritten(call.name)
             /\ shape.arrays[call.name].type = AI_TYPE_POINT
             /\ shape.arrays[call.name].nkeys = Len(PInputs)
             /\ IF call.op = "convertP"
                THEN shape.arrays[call.name].values = Payload(primitive, "P")
                ELSE \A i \in 1..Len(samples) :
                        shape.arrays[call.name].values[i] = Payload(samples[i], "P")

----------------------------------------------------------------------------
(* Conversion of one primitive variable.                                   *)

VariableCalled == call.op = "convertPrimitiveVariable"

\* The variable the last call converted.
Variable == primitive.variables[call.name]

Clashes == call.name \in before.shape.entry

\* The call left the node alone and gave exactly one warning, of a reason.
SkippedWith(reason) ==
    /\ shape = before.shape
    /\ messages = Append(before.messages, [name |-> call.name, reason |-> reason])

\* Exactly one warning, whatever its reason.
OneWarning == Len(messages) = Len(before.messages) + 1

\* The Arnold type of the elements of the vector payloads.
ElementTypeName == [t \in {"FloatVectorData", "V3fVectorData"} |->
    IF t = "FloatVectorData" THEN "FLOAT" ELSE "VECTOR"]

HasVectorPayload == Variable.data.type \in DOMAIN ElementTypeName

DeclaredAs(mode) ==
    /\ call.name \in DOMAIN shape.declared
    /\ shape.declared[call.name] = mode \o " " \o ElementTypeName[Variable.data.type]

\* C5, as stated: a FaceVarying variable of a primitive that is no mesh is
\* skipped as of unsupported interpolation exactly when the primitive's
\* Vertex size differs from its Varying size.
C5_AsStated ==
    (/\ VariableCalled
     /\ Variable.interpolation = "FaceVarying"
     /\ primitive.kind # MeshPrimitiveTypeId
     /\ ~Clashes)
    => (SkippedWith("interpolation")
            <=> primitive.sizes["Vertex"] # primitive.sizes["Varying"])

\* C5, amended: a FaceVarying variable of a primitive that is no mesh is
\* skipped as of unsupported interpolation exactly when the primitive's
\* FaceVarying size differs from its Varying size, and is "varying"
\* ("uniform" for points) otherwise; the Vertex size plays no part.
C5_FaceVaryingSize ==
    (/\ VariableCalled
     /\ Variable.interpolation = "FaceVarying"
     /\ primitive.kind # MeshPrimitiveTypeId
     /\ ~Clashes)
    => /\ SkippedWith("interpolation")
            <=> primitive.sizes["FaceVarying"] # primitive.sizes["Varying"]
       /\ (/\ primitive.sizes["FaceVarying"] = primitive.sizes["Varying"]
           /\ HasVectorPayload)
          => DeclaredAs(IF primitive.kind = PointsPrimitiveTypeId
                        THEN "uniform" ELSE "varying")

\* Cubic curves: FaceVarying data is as large as Varying data, not as
\* Vertex data, and is converted.
C5_Witness ==
    /\ VariableCalled
    /\ Variable.interpolation = "FaceVarying"
    /\ primitive.kind = CurvesPrimitiveTypeId
    /\ primitive.sizes["Vertex"] # primitive.sizes["Varying"]
    /\ ~Clashes
    /\ HasVectorPayload
    /\ Len(Variable.data.value) > 0
    /\ DeclaredAs("varying")
    /\ call.name \in DOMAIN shape.arrays

\* C6: for every kind of primitive, converting a Vertex variable whose name
\* is no built-in, when the Vertex size differs from the Varying size,
\* leaves the node as it was and gives exactly one warning.
C6_VertexUnsupported ==
    (/\ VariableCalled
     /\ Variable.interpolation = "Vertex"
     /\ ~Clashes
     /\ primitive.sizes["Vertex"] # primitive.sizes["Varying"])
    => shape = before.shape /\ OneWarning

C6_Witness ==
    /\ VariableCalled
    /\ Variable.interpolation = "Vertex"
    /\ primitive.kind = CurvesPrimitiveTypeId
    /\ ~Clashes
    /\ primitive.sizes["Vertex"] # primitive.sizes["Varying"]
    /\ HasVectorPayload
    /\ Len(Variable.data.value) > 0
    /\ "radius" \in DOMAIN shape.arrays
    /\ OneWarning

IdxsName == call.name \o "idxs"

\* C7: a FaceVarying variable of a mesh, of a name that is no built-in and
\* of a payload an array is built from, is declared "indexed", its array is
\* attached under its name, and an array of as many elements holding
\* 0, 1, ... is attached under the name followed by "idxs"; in every other
\* case no array is attached under that name.
C7_Indexed ==
    (VariableCalled /\ ~Clashes)
    => IF Variable.interpolation = "FaceVarying"
          /\ primitive.kind = MeshPrimitiveTypeId
       THEN (HasVectorPayload /\ Len(Variable.data.value) > 0)
            => /\ DeclaredAs("indexed")
               /\ call.name \in DOMAIN shape.arrays
               /\ shape.arrays[call.name].values = Variable.data.value
               /\ shape.arrays[call.name].nelements = Len(Variable.data.value)
               /\ IdxsName \in DOMAIN shape.arrays
               /\ shape.arrays[IdxsName].nelements = shape.arrays[call.name].nelements
               /\ Len(shape.arrays[IdxsName].values) = shape.arrays[call.name].nelements
               /\ \A i \in 0..(shape.arrays[call.name].nelements - 1) :
                      shape.arrays[IdxsName].values[i + 1] = i
       ELSE IdxsName \notin DOMAIN shape.arrays

C7_Witness ==
    /\ VariableCalled
    /\ ~Clashes
    /\ Variable.interpolation = "FaceVarying"
    /\ primitive.kind = MeshPrimitiveTypeId
    /\ IdxsName \in DOMAIN shape.arrays
    /\ shape.arrays[IdxsName].nelements = 2
    /\ shape.arrays[IdxsName].values = <<0, 1>>

\* Set as a scalar: no declaration made, no array attached.
SetAsScalar ==
    /\ shape = [before.shape EXCEPT
                   !.scalars = Put(before.shape.scalars, call.name, Variable.data)]
    /\ messages = before.messages

\* C8: for points a Uniform variable is set as a constant (a scalar, nothing
\* declared) and a Varying one is declared "uniform"; a Constant variable
\* is set as a constant for every kind; for every other kind a Uniform
\* variable is declared "uniform" and a Varying one "varying".
C8_PointsRemap ==
    (VariableCalled /\ ~Clashes)
    => /\ Variable.interpolation = "Constant" => SetAsScalar
       /\ (primitive.kind = PointsPrimitiveTypeId
              /\ Variable.interpolation = "Uniform") => SetAsScalar
       /\ (primitive.kind = PointsPrimitiveTypeId
              /\ Variable.interpolation = "Varying"
              /\ HasVectorPayload) => DeclaredAs("uniform")
       /\ (primitive.kind # PointsPrimitiveTypeId
              /\ Variable.interpolation = "Uniform"
              /\ HasVectorPayload) => DeclaredAs("uniform")
       /\ (primitive.kind # PointsPrimitiveTypeId
              /\ Variable.interpolation = "Varying"
              /\ HasVectorPayload) => DeclaredAs("varying")

C8_Witness ==
    /\ VariableCalled
    /\ ~Clashes
    /\ primitive.kind = PointsPrimitiveTypeId
    /\ Variable.interpolation = "Uniform"
    /\ HasVectorPayload
    /\ Len(Variable.data.value) > 0
    /\ call.name \in DOMAIN shape.scalars
    /\ call.name \notin DOMAIN shape.declared

\* C9: a variable whose name is a built-in of the node, of whatever
\* interpolation, payload and kind of primitive, gets exactly one warning
\* and the node, with the built-in's value, stays as it was.
C9_BuiltInWins ==
    (VariableCalled /\ Clashes)
    => /\ shape = before.shape
       /\ OneWarning
       /\ messages[Len(messages)].name = call.name

C9_Witness ==
    /\ VariableCalled
    /\ call.name = "radius"
    /\ Clashes
    /\ Variable.interpolation = "Vertex"
    /\ Variable.data = FloatVectorData([i \in 1..MaxLen |-> 8 * i])
    /\ "radius" \in DOMAIN shape.arrays
    /\ shape.arrays["radius"].values = <<DefaultRadius>>
    /\ OneWarning

----------------------------------------------------------------------------
(* Conversion of all the primitive variables.                              *)

BulkCalled == call.op = "convertPrimitiveVariables"

Times(name, list) == Cardinality({k \in 1..Len(list) : list[k] = name})

InIgnoreList(name) ==
    ~ignore.null /\ name \in {ignore.names[k] : k \in 1..Len(ignore.names)}

Converting == {n \in DOMAIN primitive.variables : ~InIgnoreList(n)}

Orders(S) ==
    {o \in [1..Cardinality(S) -> S] : \A i, j \in 1..Cardinality(S) :
        i # j => o[i] # o[j]}

Reasons(msgs) == {msgs[k] : k \in 1..Len(msgs)}

VectorTypes == {"FloatVectorData", "V3fVectorData", "IntVectorData"}

\* An array can be built from the payload of the variable called n.
HasArrayPayload(n) ==
    /\ primitive.variables[n].data.type \in VectorTypes
    /\ Len(primitive.variables[n].data.value) > 0

\* Converting the variable called m attaches identity indices under the
\* name m followed by "idxs".
AttachesIndices(m) ==
    /\ m \in Converting
    /\ m \notin before.shape.entry
    /\ primitive.kind = MeshPrimitiveTypeId
    /\ primitive.variables[m].interpolation = "FaceVarying"
    /\ HasArrayPayload(m)

\* Converting the variable called n attaches an array under its own name:
\* it is no built-in, it resolves to a mode other than "constant", and an
\* array is built from it.
AttachesOwnArray(n) ==
    LET i == primitive.variables[n].interpolation
    IN  /\ n \in Converting
        /\ n \notin before.shape.entry
        /\ HasArrayPayload(n)
        /\ \/ i = "Varying"
           \/ i = "Uniform" /\ primitive.kind # PointsPrimitiveTypeId
           \/ i = "FaceVarying" /\ primitive.kind = MeshPrimitiveTypeId
           \/ /\ i \in {"Vertex", "FaceVarying"}
              /\ primitive.sizes[i] = primitive.sizes["Varying"]

\* The variable whose indices are attached under the name n, which is
\* also the name of a variable that attaches its own array: the one case
\* in which two variables write the same parameter.
Sharing(n) ==
    {m \in Converting : n = m \o "idxs" /\ AttachesIndices(m) /\ AttachesOwnArray(n)}

Before(a, b, order) ==
    \E i, j \in 1..Len(order) : i < j /\ order[i] = a /\ order[j] = b

\* The loop body run over the names of order, from the node and warnings
\* the call began with.
InOrder(order) ==
    visit(primitive, ignore, order, Visited(before.shape, before.messages, <<>>))

EachOnce ==
    /\ \A n \in DOMAIN primitive.variables :
           Times(n, call.invoked) = IF InIgnoreList(n) THEN 0 ELSE 1
    /\ Len(call.invoked) = Cardinality(Converting)

\* C10, as stated: convertPrimitiveVariable is called exactly once for each
\* variable whose name is not in the list to ignore and never for one whose
\* name is in it, whatever warnings the variables before it met; and
\* visiting the variables in any other order would leave the same
\* parameters on the node.
C10_AsStated ==
    BulkCalled =>
        /\ EachOnce
        /\ \A o \in Orders(Converting) : InOrder(o).shape = shape

\* C10, amended: convertPrimitiveVariable is called exactly once for each
\* variable whose name is not in the list to ignore (a null list ignoring
\* nothing) and never for one whose name is in it, whatever warnings the
\* variables before it met.  Visiting the variables in any other order
\* would give the same warnings and leave the same declarations, scalars
\* and arrays on the node, but for the array under a name n that is both a
\* variable attaching its own array and the name m followed by "idxs" of a
\* variable m that is converted as "indexed": that array is the one
\* written last, the variable's own when m is visited before n (as in the
\* order of the code, where it always is) and the identity indices of m
\* when n is visited before m.
C10_EachOnce ==
    BulkCalled =>
        /\ EachOnce
        /\ \A n \in DOMAIN shape.arrays : \A m \in Sharing(n) :
               shape.arrays[n].values = primitive.variables[n].data.value
        /\ \A o \in Orders(Converting) :
               LET other == InOrder(o).shape
               IN  /\ Reasons(InOrder(o).messages) = Reasons(messages)
                   /\ Len(InOrder(o).messages) = Len(messages)
                   /\ other.entry = shape.entry
                   /\ other.declared = shape.declared
                   /\ other.scalars = shape.scalars
                   /\ DOMAIN other.arrays = DOMAIN shape.arrays
                   /\ \A n \in DOMAIN shape.arrays :
                          /\ Sharing(n) = {} => other.arrays[n] = shape.arrays[n]
                          /\ \A m \in Sharing(n) :
                                 IF Before(m, n, o)
                                 THEN other.arrays[n] = shape.arrays[n]
                                 ELSE /\ other.arrays[n].type = AI_TYPE_UINT
                                      /\ other.arrays[n].nelements
                                             = Len(primitive.variables[m].data.value)
                                      /\ \A k \in 1..other.arrays[n].nelements :
                                             other.arrays[n].values[k] = k - 1

\* On a mesh "P" is ignored, "Cs" is skipped with a warning, "st", which
\* comes after it, is converted as "indexed" all the same, and "stidxs",
\* visited last, leaves its own array where the indices of "st" were.
C10_Witness ==
    /\ BulkCalled
    /\ ignore = Names(<<"P">>)
    /\ DOMAIN primitive.variables = {"Cs", "P", "radius", "st", "stidxs"}
    /\ primitive.kind = MeshPrimitiveTypeId
    /\ call.invoked = <<"Cs", "radius", "st", "stidxs">>
    /\ [name |-> "Cs", reason |-> "type"] \in Reasons(messages)
    /\ Sharing("stidxs") = {"st"}
    /\ shape.declared["st"] = "indexed FLOAT"
    /\ shape.arrays["stidxs"].values = primitive.variables["stidxs"].data.value
    /\ "P" \notin DOMAIN shape.arrays

====
